---- MODULE Spec2Model ----
(***************************************************************************)
(* Model of the notebook "1 - Numba Basics": the hypot function, the ex1   *)
(* exercise and the cells that call them, with IEEE-754 binary64           *)
(* arithmetic computed on multi-limb naturals (TLC integers are 32 bit).   *)
(* Two specifications: Spec is the kernel running the exercise's cells,    *)
(* SpecHypot is one call of hypot.py_func on any two of a set of floats.   *)
(* What Numba itself does (when it compiles, what it does with a type it   *)
(* cannot infer) is not in the notebook's code and is not modelled; the    *)
(* compiled form of hypot is taken from the listing the notebook records.  *)
(***************************************************************************)
EXTENDS Integers, Sequences, FiniteSets, TLC

(***************************************************************************)
(* Natural numbers of any size: little-endian sequences of limbs in        *)
(* 0..Base-1 without leading (most significant) zero limbs; <<>> is 0.     *)
(***************************************************************************)
Base == 2 ^ 15

RECURSIVE NatBitLen(_)
NatBitLen(n) == IF n = 0 THEN 0 ELSE 1 + NatBitLen(n \div 2)

LimbBits == NatBitLen(Base) - 1

RECURSIVE Pow2(_)
Pow2(k) == IF k = 0 THEN 1 ELSE 2 * Pow2(k - 1)

RECURSIVE BNorm(_)
BNorm(a) ==
    IF a = <<>> THEN <<>>
    ELSE IF a[Len(a)] = 0 THEN BNorm(SubSeq(a, 1, Len(a) - 1))
    ELSE a

BTail(a) == IF a = <<>> THEN <<>> ELSE Tail(a)
BHead(a) == IF a = <<>> THEN 0 ELSE Head(a)

RECURSIVE BFromNat(_)
BFromNat(n) == IF n = 0 THEN <<>> ELSE <<n % Base>> \o BFromNat(n \div Base)

RECURSIVE BAddC(_, _, _)
BAddC(a, b, c) ==
    IF a = <<>> /\ b = <<>> THEN (IF c = 0 THEN <<>> ELSE <<c>>)
    ELSE LET s == BHead(a) + BHead(b) + c
         IN  <<s % Base>> \o BAddC(BTail(a), BTail(b), s \div Base)

BAdd(a, b) == BAddC(a, b, 0)

\* a - b for a >= b, limb by limb with a borrow
RECURSIVE BSubC(_, _, _)
BSubC(a, b, c) ==
    IF a = <<>> THEN <<>>
    ELSE LET d == BHead(a) - BHead(b) - c
         IN  IF d < 0 THEN <<d + Base>> \o BSubC(BTail(a), BTail(b), 1)
             ELSE <<d>> \o BSubC(BTail(a), BTail(b), 0)

BSub(a, b) == BNorm(BSubC(a, b, 0))

\* -1, 0, 1 as a < b, a = b, a > b (both normalised)
RECURSIVE BCmpFrom(_, _, _)
BCmpFrom(a, b, i) ==
    IF i = 0 THEN 0
    ELSE IF a[i] < b[i] THEN -1
    ELSE IF a[i] > b[i] THEN 1
    ELSE BCmpFrom(a, b, i - 1)

BCmp(a, b) ==
    IF Len(a) < Len(b) THEN -1
    ELSE IF Len(a) > Len(b) THEN 1
    ELSE BCmpFrom(a, b, Len(a))

RECURSIVE BMulSmallC(_, _, _)
BMulSmallC(a, d, c) ==
    IF a = <<>> THEN (IF c = 0 THEN <<>> ELSE <<c>>)
    ELSE LET p == Head(a) * d + c
         IN  <<p % Base>> \o BMulSmallC(Tail(a), d, p \div Base)

BMulSmall(a, d) == IF d = 0 THEN <<>> ELSE BMulSmallC(a, d, 0)

RECURSIVE BMul(_, _)
BMul(a, b) ==
    IF a = <<>> \/ b = <<>> THEN <<>>
    ELSE BAdd(BMulSmall(a, Head(b)),
              LET r == BMul(a, Tail(b)) IN IF r = <<>> THEN <<>> ELSE <<0>> \o r)

RECURSIVE BZeros(_)
BZeros(n) == IF n = 0 THEN <<>> ELSE <<0>> \o BZeros(n - 1)

\* a * 2^k
BShl(a, k) ==
    IF a = <<>> THEN <<>>
    ELSE BZeros(k \div LimbBits) \o BMulSmall(a, Pow2(k % LimbBits))

\* floor(a / d) for a limb d, from the most significant limb down
RECURSIVE BDivSmallFrom(_, _, _, _)
BDivSmallFrom(a, d, i, r) ==
    IF i = 0 THEN <<>>
    ELSE LET cur == r * Base + a[i]
         IN  BDivSmallFrom(a, d, i - 1, cur % d) \o <<cur \div d>>

\* floor(a / 2^k)
BShr(a, k) ==
    LET whole == k \div LimbBits
        part == k % LimbBits
    IN  IF Len(a) <= whole THEN <<>>
        ELSE LET b == SubSeq(a, whole + 1, Len(a))
             IN  IF part = 0 THEN b
                 ELSE BNorm(BDivSmallFrom(b, Pow2(part), Len(b), 0))


BBitLen(a) ==
    IF a = <<>> THEN 0 ELSE LimbBits * (Len(a) - 1) + NatBitLen(a[Len(a)])

BBit(a, i) ==
    IF i \div LimbBits >= Len(a) THEN 0
    ELSE (a[(i \div LimbBits) + 1] \div Pow2(i % LimbBits)) % 2

BIsOdd(a) == a # <<>> /\ Head(a) % 2 = 1

\* <<q, r>> with n = q*d + r, 0 <= r < d: binary long division over the
\* bits of n, most significant first; i counts the bits still to take and
\* qr is the quotient and remainder of the bits taken so far
RECURSIVE BDivModFrom(_, _, _, _)
BDivModFrom(n, d, i, qr) ==
    IF i = 0 THEN qr
    ELSE LET r2 == BAdd(BShl(qr[2], 1), IF BBit(n, i - 1) = 1 THEN <<1>> ELSE <<>>)
             q2 == BShl(qr[1], 1)
         IN  IF BCmp(r2, d) >= 0
             THEN BDivModFrom(n, d, i - 1, <<BAdd(q2, <<1>>), BSub(r2, d)>>)
             ELSE BDivModFrom(n, d, i - 1, <<q2, r2>>)

\* the top BBitLen(d)-1 bits of n are less than d: the quotient starts there
BDivMod(n, d) ==
    LET skip == BBitLen(d) - 1
        rest == IF BBitLen(n) > skip THEN BBitLen(n) - skip ELSE 0
    IN  BDivModFrom(n, d, rest, <<<<>>, BShr(n, rest)>>)

\* floor(sqrt(n)): the result's bits from the top, keeping r*r <= n
RECURSIVE BSqrtFrom(_, _, _)
BSqrtFrom(n, i, r) ==
    IF i = 0 THEN r
    ELSE LET c == BAdd(r, BShl(<<1>>, i - 1))
         IN  IF BCmp(BMul(c, c), n) <= 0
             THEN BSqrtFrom(n, i - 1, c)
             ELSE BSqrtFrom(n, i - 1, r)

BSqrt(n) == BSqrtFrom(n, (BBitLen(n) + 1) \div 2, <<>>)

(***************************************************************************)
(* IEEE-754 binary64 (Python float, Numba float64), finite values only: a  *)
(* record [sign, man, exp] standing for (-1)^sign * man * 2^exp, with man  *)
(* either 0 or of exactly MantBits bits.  Every operation computes the     *)
(* exact result and rounds it to nearest, ties to even.  Exponents are not *)
(* bounded: the inputs used stay far from overflow and underflow.          *)
(***************************************************************************)
MantBits == 53

F64Zero == [sign |-> 0, man |-> <<>>, exp |-> 0]

F64IsZero(a) == a.man = <<>>

\* the float nearest to (-1)^sign * m * 2^e, ties to even
F64Round(sign, m, e) ==
    LET n == BBitLen(m)
    IN  IF n = 0 THEN [sign |-> sign, man |-> <<>>, exp |-> 0]
        ELSE IF n <= MantBits
        THEN [sign |-> sign, man |-> BShl(m, MantBits - n), exp |-> e - (MantBits - n)]
        ELSE LET k == n - MantBits
                 q == BShr(m, k)
                 rem == BSub(m, BShl(q, k))
                 c == BCmp(rem, BShl(<<1>>, k - 1))
                 up == c > 0 \/ (c = 0 /\ BIsOdd(q))
                 q2 == IF up THEN BAdd(q, <<1>>) ELSE q
             IN  IF BBitLen(q2) > MantBits
                 THEN [sign |-> sign, man |-> BShr(q2, 1), exp |-> e + k + 1]
                 ELSE [sign |-> sign, man |-> q2, exp |-> e + k]

\* int -> float conversion
F64FromInt(n) ==
    IF n < 0 THEN F64Round(1, BFromNat(-n), 0) ELSE F64Round(0, BFromNat(n), 0)

F64Neg(a) == [a EXCEPT !.sign = 1 - a.sign]

\* -1, 0, 1 comparing magnitudes
F64MagCmp(a, b) ==
    IF F64IsZero(a) THEN (IF F64IsZero(b) THEN 0 ELSE -1)
    ELSE IF F64IsZero(b) THEN 1
    ELSE IF a.exp < b.exp THEN -1
    ELSE IF a.exp > b.exp THEN 1
    ELSE BCmp(a.man, b.man)

\* -1, 0, 1 comparing values (-0.0 equals 0.0)
F64Cmp(a, b) ==
    IF F64IsZero(a) /\ F64IsZero(b) THEN 0
    ELSE IF F64IsZero(a) THEN (IF b.sign = 1 THEN 1 ELSE -1)
    ELSE IF F64IsZero(b) THEN (IF a.sign = 1 THEN -1 ELSE 1)
    ELSE IF a.sign # b.sign THEN (IF a.sign = 1 THEN -1 ELSE 1)
    ELSE IF a.sign = 1 THEN 0 - F64MagCmp(a, b)
    ELSE F64MagCmp(a, b)

F64Lt(a, b) == F64Cmp(a, b) < 0

F64Add(a, b) ==
    IF F64IsZero(a) THEN (IF F64IsZero(b) THEN [F64Zero EXCEPT !.sign = a.sign * b.sign] ELSE b)
    ELSE IF F64IsZero(b) THEN a
    ELSE LET e == IF a.exp < b.exp THEN a.exp ELSE b.exp
             ma == BShl(a.man, a.exp - e)
             mb == BShl(b.man, b.exp - e)
             c == BCmp(ma, mb)
         IN  IF a.sign = b.sign THEN F64Round(a.sign, BAdd(ma, mb), e)
             ELSE IF c = 0 THEN F64Zero
             ELSE IF c > 0 THEN F64Round(a.sign, BSub(ma, mb), e)
             ELSE F64Round(b.sign, BSub(mb, ma), e)

F64Sub(a, b) == F64Add(a, F64Neg(b))

F64Mul(a, b) ==
    F64Round((a.sign + b.sign) % 2, BMul(a.man, b.man), a.exp + b.exp)

\* a / b for b # 0: MantBits+3 quotient bits and a sticky bit for the rest
F64Div(a, b) ==
    LET k == MantBits + 3
        qr == BDivMod(BShl(a.man, k), b.man)
        sticky == IF qr[2] = <<>> THEN <<>> ELSE <<1>>
    IN  F64Round((a.sign + b.sign) % 2,
                 BAdd(BShl(qr[1], 1), sticky), a.exp - b.exp - k - 1)

\* the float nearest to sqrt(m * 2^e): the radicand widened to an even
\* exponent and at least 2*MantBits+4 bits, then the integer root and a
\* sticky bit for what the root leaves over
F64SqrtExact(m, e) ==
    LET n0 == BBitLen(m)
        k0 == IF n0 >= 2 * MantBits + 4 THEN 0 ELSE 2 * MantBits + 4 - n0
        k == IF (e - k0) % 2 = 0 THEN k0 ELSE k0 + 1
        n == BShl(m, k)
        r == BSqrt(n)
        sticky == IF BCmp(BMul(r, r), n) = 0 THEN <<>> ELSE <<1>>
    IN  IF m = <<>> THEN F64Zero
        ELSE F64Round(0, BAdd(BShl(r, 1), sticky), ((e - k) \div 2) - 1)

\* math.sqrt(a) for a >= 0
F64Sqrt(a) == F64SqrtExact(a.man, a.exp)

\* abs(a) on a float
F64Abs(a) == [a EXCEPT !.sign = 0]

\* what 0.0/0.0 gives where no exception is raised; no operation rounds to it
NaN == [sign |-> 0, man |-> <<>>, exp |-> 1]

\* how a call ends: with a value, or with an exception
Return(v) == [raised |-> "none", val |-> v]
Raise(e) == [raised |-> e, val |-> F64Zero]

(***************************************************************************)
(* Python's builtins on floats, as hypot's body uses them.                 *)
(***************************************************************************)
\* min(a, b): the first argument unless the second is smaller
PyMinFirst(a, b) == a

PyMin(a, b) == IF F64Lt(b, a) THEN b ELSE a

\* max(a, b): the first argument unless the second is larger
PyMaxReversed(a, b) == IF F64Lt(a, b) THEN a ELSE b

PyMax(a, b) == IF F64Lt(a, b) THEN b ELSE a

\* PyTrueDiv changed to guard the divisor: a zero divisor gives 0.0
PyTrueDivGuarded(a, b) ==
    IF F64IsZero(b) THEN Return(F64Zero) ELSE Return(F64Div(a, b))

\* a / b: float division raises on a zero divisor
PyTrueDiv(a, b) ==
    IF F64IsZero(b) THEN Raise("ZeroDivisionError") ELSE Return(F64Div(a, b))

\* x * math.sqrt(1+t*t): the int 1 is converted to float for the addition
PyReturnExpr(a, b) ==
    F64Mul(a, F64Sqrt(F64Add(F64FromInt(1), F64Mul(b, b))))

\* def hypot(x, y): the whole body, each assignment a new name
py_func(a, b) ==
    LET x1 == F64Abs(a)
        y1 == F64Abs(b)
        t1 == PyMin(x1, y1)
        x2 == PyMax(x1, y1)
        t2 == PyTrueDiv(t1, x2)
    IN  IF t2.raised = "none" THEN Return(PyReturnExpr(x2, t2.val)) ELSE t2

(***************************************************************************)
(* The machine code Numba compiled for hypot(float64, float64), read off   *)
(* the typed listing inspect_types() printed.  Its names are the           *)
(* listing's: x.1 is x_1, $0.17 is v0_17.  The listing types t / x.2 as    *)
(* float64 and shows no check of the divisor, so a zero divisor gives      *)
(* either outcome compiled code can have: ZeroDivisionError or NaN.  The   *)
(* value is the set of possible outcomes.  min and max are typed           *)
(* (float64, float64) -> float64 and pick by comparison.                   *)
(***************************************************************************)
\* hypot_float64 changed to scale by |x| whether or not it is the larger
hypot_float64_without_max(a, b) ==
    LET x_1 == F64Abs(a)
        y_1 == F64Abs(b)
        t_0 == IF F64Lt(y_1, x_1) THEN y_1 ELSE x_1
        x_2 == x_1
        t_1 == F64Div(t_0, x_2)
        v0_27 == F64Mul(x_2, F64Sqrt(F64Add(F64FromInt(1), F64Mul(t_1, t_1))))
    IN  IF F64IsZero(x_2) THEN {Raise("ZeroDivisionError"), Return(NaN)}
        ELSE {Return(v0_27)}

hypot_float64(a, b) ==
    LET v0_3 == F64Abs(a)
        x_1 == v0_3
        v0_6 == F64Abs(b)
        y_1 == v0_6
        v0_10 == IF F64Lt(y_1, x_1) THEN y_1 ELSE x_1
        t_0 == v0_10
        v0_14 == IF F64Lt(x_1, y_1) THEN y_1 ELSE x_1
        x_2 == v0_14
        v0_17 == F64Div(t_0, x_2)
        t_1 == v0_17
        const0_21 == 1
        v0_24 == F64Mul(t_1, t_1)
        v0_25 == F64Add(F64FromInt(const0_21), v0_24)
        v0_26 == F64Sqrt(v0_25)
        v0_27 == F64Mul(x_2, v0_26)
        v0_28 == v0_27
    IN  IF F64IsZero(x_2) THEN {Raise("ZeroDivisionError"), Return(NaN)}
        ELSE {Return(v0_28)}

VARIABLES
    arg_x, arg_y,   \* the arguments of the running call of hypot.py_func
    x, y, t,        \* its locals
    hypot_pc,       \* its position: the statement to run next
    hypot_ret,      \* how it ended
    hypot_def,      \* whether the kernel has the name hypot bound
    ex1_def,        \* the body the name ex1 is bound to, or "unbound"
    in1, in2, out,  \* the arrays of the exercise, <<>> while unbound
    kernel_pc,      \* "idle" between cells, "ex1" inside the loop of ex1
    i,              \* the loop index of the running ex1
    running,        \* the body of the ex1 that the last call invoked
    exc,            \* the exception that ended the last call of ex1
    shares,         \* the argument whose array the out of the running
                    \* call is ("x", "y"), or "none" for an array of its own
    test,           \* the last run of the test cell: its result, and the
                    \* body of the ex1 whose output it compared
    order           \* how many cells have run, when they ran once each in
                    \* document order; -1 after any other run

hypot_vars == <<arg_x, arg_y, x, y, t, hypot_pc, hypot_ret>>

kernel_vars == <<hypot_def, ex1_def, in1, in2, out, kernel_pc, i, running, exc, shares, test, order>>

vars == <<hypot_vars, kernel_vars>>

\* bound on the integers the inputs of hypot are built from
MaxIn == 4

\* the denominators the inputs are built from: n/1, n/3 and n/10
Denominators == {1, 3, 10}

\* float inputs: n/d for small n, both signs, and -0.0
Inputs ==
    {F64Div(F64FromInt(n), F64FromInt(d)) : n \in (0 - MaxIn)..MaxIn, d \in Denominators}
        \cup {F64Neg(F64Zero)}

HypotIdle ==
    /\ arg_x = F64Zero /\ arg_y = F64Zero
    /\ x = F64Zero /\ y = F64Zero /\ t = F64Zero
    /\ hypot_pc = "idle"
    /\ hypot_ret = Return(F64Zero)

(***************************************************************************)
(* hypot.py_func(arg_x, arg_y): the Python function, a statement a step.   *)
(* t is unbound until min(x, y) is assigned to it; it holds 0.0 till then. *)
(***************************************************************************)
\* x = abs(x);
hypot_abs_x ==
    /\ hypot_pc = "abs_x"
    /\ x' = F64Abs(x)
    /\ hypot_pc' = "abs_y"
    /\ UNCHANGED <<arg_x, arg_y, y, t, hypot_ret>>

\* y = abs(y);
hypot_abs_y ==
    /\ hypot_pc = "abs_y"
    /\ y' = F64Abs(y)
    /\ hypot_pc' = "min"
    /\ UNCHANGED <<arg_x, arg_y, x, t, hypot_ret>>

\* t = min(x, y);
hypot_min ==
    /\ hypot_pc = "min"
    /\ t' = PyMin(x, y)
    /\ hypot_pc' = "max"
    /\ UNCHANGED <<arg_x, arg_y, x, y, hypot_ret>>

\* x = max(x, y);
hypot_max ==
    /\ hypot_pc = "max"
    /\ x' = PyMax(x, y)
    /\ hypot_pc' = "div"
    /\ UNCHANGED <<arg_x, arg_y, y, t, hypot_ret>>

\* t = t / x;
hypot_div ==
    /\ hypot_pc = "div"
    /\ LET q == PyTrueDiv(t, x)
       IN  IF q.raised = "none"
           THEN /\ t' = q.val
                /\ hypot_pc' = "return"
                /\ UNCHANGED hypot_ret
           ELSE /\ hypot_ret' = q
                /\ hypot_pc' = "raised"
                /\ UNCHANGED t
    /\ UNCHANGED <<arg_x, arg_y, x, y>>

\* return x * math.sqrt(1+t*t)
hypot_return ==
    /\ hypot_pc = "return"
    /\ hypot_ret' = Return(PyReturnExpr(x, t))
    /\ hypot_pc' = "returned"
    /\ UNCHANGED <<arg_x, arg_y, x, y, t>>

hypot_step ==
    \/ hypot_abs_x
    \/ hypot_abs_y
    \/ hypot_min
    \/ hypot_max
    \/ hypot_div
    \/ hypot_return

(***************************************************************************)
(* The exercise.  The kernel runs one cell at a time, in whatever order    *)
(* the user picks.  The cells modelled are the ones that bind or use       *)
(* hypot, ex1, in1, in2 and out; the others (timings, inspect_types,       *)
(* cannot_compile) leave these names alone.                                *)
(***************************************************************************)
\* the length of np.arange(10, dtype=np.float64)
N == 10

\* an element np.empty_like left unwritten: any bit pattern
Garbage == [sign |-> 0, man |-> <<>>, exp |-> 2]

\* out[i] = x[i] + y[i]
ex1_sum_body(a, b) == {Return(F64Add(a, b))}

\* ex1_hypot_body left as the exercise was handed out: still the sum
ex1_hypot_body_unfixed(a, b) == ex1_sum_body(a, b)

\* out[i] = hypot(x[i] , y[i]): compiled code calling compiled code
ex1_hypot_body(a, b) == hypot_float64(a, b)

\* np.hypot: the float nearest to sqrt(a^2 + b^2)
NpHypot(a, b) ==
    IF F64IsZero(a) /\ F64IsZero(b) THEN F64Zero
    ELSE IF F64IsZero(a) THEN F64Abs(b)
    ELSE IF F64IsZero(b) THEN F64Abs(a)
    ELSE LET e == IF a.exp < b.exp THEN a.exp ELSE b.exp
             ma == BShl(a.man, a.exp - e)
             mb == BShl(b.man, b.exp - e)
         IN  F64SqrtExact(BAdd(BMul(ma, ma), BMul(mb, mb)), 2 * e)

\* assert_almost_equal's tolerance at its default 7 decimals: 1.5 * 10**(-7)
Tolerance ==
    F64Mul(F64Div(F64FromInt(15), F64FromInt(10)),
           F64Div(F64FromInt(1), F64FromInt(10000000)))

\* assert_almost_equal's test of one element: abs(desired - actual) < tolerance
AlmostEqual(actual, desired) ==
    F64Lt(F64Abs(F64Sub(desired, actual)), Tolerance)

\* the position in document order after cell number c has run
Ordered(c) == IF order = c - 1 THEN c ELSE -1

\* @jit def hypot(x, y): ...
cell_hypot ==
    /\ kernel_pc = "idle"
    /\ hypot_def' = TRUE
    /\ order' = Ordered(1)
    /\ UNCHANGED <<ex1_def, in1, in2, out, kernel_pc, i, running, exc, shares, test>>
    /\ UNCHANGED hypot_vars

\* @jit(nopython=True) def ex1(x, y, out): ... out[i] = x[i] + y[i]
cell_ex1_sum ==
    /\ kernel_pc = "idle"
    /\ ex1_def' = "sum"
    /\ order' = Ordered(2)
    /\ UNCHANGED <<hypot_def, in1, in2, out, kernel_pc, i, running, exc, shares, test>>
    /\ UNCHANGED hypot_vars

\* cell_ex1_hypot changed so that a name already bound keeps its binding
cell_ex1_hypot_keeps_first ==
    /\ kernel_pc = "idle"
    /\ ex1_def' = IF ex1_def = "unbound" THEN "hypot" ELSE ex1_def
    /\ order' = Ordered(3)
    /\ UNCHANGED <<hypot_def, in1, in2, out, kernel_pc, i, running, exc, shares, test>>
    /\ UNCHANGED hypot_vars

\* @jit(nopython=True) def ex1(x, y, out): ... out[i] = hypot(x[i] , y[i])
cell_ex1_hypot ==
    /\ kernel_pc = "idle"
    /\ ex1_def' = "hypot"
    /\ order' = Ordered(3)
    /\ UNCHANGED <<hypot_def, in1, in2, out, kernel_pc, i, running, exc, shares, test>>
    /\ UNCHANGED hypot_vars

\* in1 = np.arange(10, dtype=np.float64); in2 = 2 * in1 + 1;
\* out = np.empty_like(in1); ex1(in1, in2, out): up to the entry of the
\* loop.  An unbound ex1 is a NameError; an ex1 whose hypot is unbound
\* fails when it is compiled or when it first looks the name up.
cell_call ==
    /\ kernel_pc = "idle"
    /\ in1' = [k \in 1..N |-> F64FromInt(k - 1)]
    /\ in2' = [k \in 1..N |-> F64Add(F64Mul(F64FromInt(2), F64FromInt(k - 1)), F64FromInt(1))]
    /\ out' = [k \in 1..N |-> Garbage]
    /\ shares' = "none"
    /\ order' = Ordered(4)
    /\ i' = 0
    /\ IF ex1_def = "unbound"
       THEN /\ exc' = "NameError"
            /\ running' = "none"
            /\ UNCHANGED kernel_pc
       ELSE IF ex1_def = "hypot" /\ ~hypot_def
       THEN /\ exc' \in {"NameError", "TypingError"}
            /\ running' = "none"
            /\ UNCHANGED kernel_pc
       ELSE /\ exc' = "none"
            /\ running' = ex1_def
            /\ kernel_pc' = "ex1"
    /\ UNCHANGED <<hypot_def, ex1_def, test>>
    /\ UNCHANGED hypot_vars

\* ex1_iter with the result stored at out[0] in every iteration
ex1_iter_first_element ==
    /\ kernel_pc = "ex1"
    /\ i < Len(in1)
    /\ \E r \in IF running = "sum"
                THEN ex1_sum_body(in1[i + 1], in2[i + 1])
                ELSE ex1_hypot_body(in1[i + 1], in2[i + 1]) :
          IF r.raised = "none"
          THEN /\ out' = [out EXCEPT ![1] = r.val]
               /\ in1' = IF shares = "x" THEN out' ELSE in1
               /\ in2' = IF shares = "y" THEN out' ELSE in2
               /\ i' = i + 1
               /\ UNCHANGED <<kernel_pc, exc>>
          ELSE /\ exc' = r.raised
               /\ kernel_pc' = "idle"
               /\ UNCHANGED <<in1, in2, out, i>>
    /\ UNCHANGED <<hypot_def, ex1_def, running, shares, test, order>>
    /\ UNCHANGED hypot_vars

\* for i in range(x.shape[0]): out[i] = ...   (one iteration).  The
\* arguments are references: a write to out is a write to x or y when out
\* is that array.
ex1_iter ==
    /\ kernel_pc = "ex1"
    /\ i < Len(in1)
    /\ \E r \in IF running = "sum"
                THEN ex1_sum_body(in1[i + 1], in2[i + 1])
                ELSE ex1_hypot_body(in1[i + 1], in2[i + 1]) :
          IF r.raised = "none"
          THEN /\ out' = [out EXCEPT ![i + 1] = r.val]
               /\ in1' = IF shares = "x" THEN out' ELSE in1
               /\ in2' = IF shares = "y" THEN out' ELSE in2
               /\ i' = i + 1
               /\ UNCHANGED <<kernel_pc, exc>>
          ELSE /\ exc' = r.raised
               /\ kernel_pc' = "idle"
               /\ UNCHANGED <<in1, in2, out, i>>
    /\ UNCHANGED <<hypot_def, ex1_def, running, shares, test, order>>
    /\ UNCHANGED hypot_vars

\* the loop is over: ex1 returns and the cell prints out
ex1_return ==
    /\ kernel_pc = "ex1"
    /\ i = Len(in1)
    /\ kernel_pc' = "idle"
    /\ UNCHANGED <<hypot_def, ex1_def, in1, in2, out, i, running, exc, shares, test, order>>
    /\ UNCHANGED hypot_vars

\* np.testing.assert_almost_equal(out, np.hypot(in1, in2)); an element
\* ex1 never wrote compares either way
cell_test ==
    /\ kernel_pc = "idle"
    /\ order' = Ordered(5)
    /\ IF out = <<>>
       THEN test' = [result |-> "NameError", ran |-> running]
       ELSE IF \E k \in 1..Len(out) : out[k] = Garbage
       THEN \E res \in {"passed", "AssertionError"} :
                test' = [result |-> res, ran |-> "none"]
       ELSE test' = [result |->
                         IF \A k \in 1..Len(out) :
                                AlmostEqual(out[k], NpHypot(in1[k], in2[k]))
                         THEN "passed" ELSE "AssertionError",
                     ran |-> running]
    /\ UNCHANGED <<hypot_def, ex1_def, in1, in2, out, kernel_pc, i, running, exc, shares>>
    /\ UNCHANGED hypot_vars

KernelInit ==
    /\ hypot_def = FALSE
    /\ ex1_def = "unbound"
    /\ in1 = <<>> /\ in2 = <<>> /\ out = <<>>
    /\ kernel_pc = "idle"
    /\ i = 0
    /\ running = "none"
    /\ exc = "none"
    /\ shares = "none"
    /\ test = [result |-> "notrun", ran |-> "none"]
    /\ order = 0

Init == KernelInit /\ HypotIdle

Next ==
    \/ cell_hypot
    \/ cell_ex1_sum
    \/ cell_ex1_hypot
    \/ cell_call
    \/ ex1_iter
    \/ ex1_return
    \/ cell_test

Spec == Init /\ [][Next]_vars

\* a call of hypot.py_func on any two of the inputs
InitHypot ==
    /\ arg_x \in Inputs /\ arg_y \in Inputs
    /\ x = arg_x /\ y = arg_y /\ t = F64Zero
    /\ hypot_pc = "abs_x"
    /\ hypot_ret = Return(F64Zero)
    /\ KernelInit

NextHypot == hypot_step /\ UNCHANGED kernel_vars

SpecHypot == InitHypot /\ [][NextHypot]_vars

MaxSym == 2

SymInputs ==
    {F64Div(F64FromInt(n), F64FromInt(d)) :
        n \in (0 - MaxSym)..MaxSym, d \in Denominators} \cup {F64Neg(F64Zero)}

\* a call of hypot.py_func on any two of the smaller inputs, which are
\* closed under negation
InitSym ==
    /\ arg_x \in SymInputs /\ arg_y \in SymInputs
    /\ x = arg_x /\ y = arg_y /\ t = F64Zero
    /\ hypot_pc = "abs_x"
    /\ hypot_ret = Return(F64Zero)
    /\ KernelInit

SpecSym == InitSym /\ [][NextHypot]_vars

MaxLen == 2

\* the elements of x and of y in a call of ex1
XElems == {F64Zero, F64FromInt(3)}
YElems == {F64Zero, F64FromInt(4)}

\* the float arrays of up to MaxLen elements
ArraysOver(elems) == UNION {[1..n -> elems] : n \in 0..MaxLen}

\* a call ex1(x, y, out) of either version of ex1, in1 and in2 standing
\* for x and y: len(y) >= len(x), len(out) >= len(x), and out either one
\* of the two arrays itself or an array of its own, not written yet
InitEx1 ==
    /\ HypotIdle
    /\ hypot_def = TRUE
    /\ ex1_def \in {"sum", "hypot"}
    /\ running = ex1_def
    /\ in1 \in ArraysOver(XElems)
    /\ in2 \in ArraysOver(YElems)
    /\ Len(in2) >= Len(in1)
    /\ shares \in {"none", "x", "y"}
    /\ out \in IF shares = "x" THEN {in1}
               ELSE IF shares = "y" THEN {in2}
               ELSE {[k \in 1..n |-> Garbage] : n \in Len(in1)..MaxLen}
    /\ kernel_pc = "ex1"
    /\ i = 0
    /\ exc = "none"
    /\ test = [result |-> "notrun", ran |-> "none"]
    /\ order = 0

NextEx1 ==
    \/ ex1_iter
    \/ ex1_return

SpecEx1 == InitEx1 /\ [][NextEx1]_vars

(***************************************************************************)
(* The claims.                                                             *)
(***************************************************************************)
BothZero == F64IsZero(arg_x) /\ F64IsZero(arg_y)

C2_ExerciseMatchesReference ==
    /\ (order = 4 /\ kernel_pc = "idle") =>
           \A k \in 1..N :
               /\ in1[k] = F64FromInt(k - 1)
               /\ in2[k] = F64FromInt(2 * (k - 1) + 1)
               /\ AlmostEqual(out[k], NpHypot(in1[k], in2[k]))
    /\ order = 5 => test = [result |-> "passed", ran |-> "hypot"]

C2_Witness ==
    /\ order = 5
    /\ test = [result |-> "passed", ran |-> "hypot"]
    /\ \A k \in 1..N : AlmostEqual(out[k], NpHypot(in1[k], in2[k]))

\* C7: the test cell fails on the output of the element-wise sum and
\* passes on the output of the ex1 that calls hypot; when the cells ran in
\* document order the later definition of ex1 has replaced the earlier and
\* is the one the call invoked.
C7_LaterDefinitionWins ==
    /\ test.ran = "sum" => test.result = "AssertionError"
    /\ test.ran = "hypot" => test.result = "passed"
    /\ order >= 3 => ex1_def = "hypot"
    /\ order >= 4 => running = "hypot"

C7_Witness ==
    /\ test = [result |-> "AssertionError", ran |-> "sum"]
    /\ ex1_def = "hypot"
    /\ running = "hypot"
    /\ kernel_pc = "idle"

\* C10: hypot does not guard the divisor.  At t = t / x the divisor is
\* zero exactly when both inputs are zero; then the call ends in
\* ZeroDivisionError and returns nothing.  For every other pair the
\* divisor is strictly positive, the division goes through to the return
\* statement, and that returns a value without raising.
C10_Safe ==
    /\ hypot_pc = "div" =>
           /\ F64IsZero(x) <=> BothZero
           /\ ~BothZero => F64Cmp(x, F64Zero) > 0
    /\ hypot_pc = "raised" =>
           /\ BothZero
           /\ hypot_ret = Raise("ZeroDivisionError")
    /\ hypot_pc \in {"return", "returned"} => ~BothZero
    /\ hypot_pc = "returned" => hypot_ret.raised = "none"

\* the step out of the division, and the one after it
C10_Step ==
    /\ hypot_pc = "div" => hypot_pc' = IF BothZero THEN "raised" ELSE "return"
    /\ hypot_pc = "return" => hypot_pc' = "returned" /\ hypot_ret'.raised = "none"

SmallerMagnitude ==
    IF F64MagCmp(arg_x, arg_y) <= 0 THEN F64Abs(arg_x) ELSE F64Abs(arg_y)

LargerMagnitude ==
    IF F64MagCmp(arg_x, arg_y) <= 0 THEN F64Abs(arg_y) ELSE F64Abs(arg_x)

ZeroPair(k) == F64IsZero(in1[k]) /\ F64IsZero(in2[k])

\* out, when an array of its own, holds a result in each of its first i
\* elements and is as it was in the others
C11_Written ==
    shares = "none" =>
        \A k \in 1..Len(out) :
            /\ k <= i => out[k] # Garbage
            /\ k > i => out[k] = Garbage

\* how far the loop is, and how the call ended
C11_Safe ==
    /\ i \in 0..Len(in1)
    /\ C11_Written
    /\ kernel_pc = "idle" => (exc = "none" /\ i = Len(in1))

\* a step of the call: an iteration writes out[i] and nothing else and
\* moves on to i + 1, and after iteration len(x) the call returns
C11_Step ==
    /\ in1' = in1 /\ in2' = in2
    /\ Len(out') = Len(out)
    /\ (kernel_pc = "ex1" /\ i < Len(in1)) =>
           /\ kernel_pc' = "ex1" /\ i' = i + 1
           /\ \A k \in 1..Len(out) : k # i + 1 => out'[k] = out[k]
    /\ (kernel_pc = "ex1" /\ i = Len(in1)) =>
           /\ kernel_pc' = "idle" /\ i' = i /\ out' = out

C11_Pre ==
    /\ shares = "none"
    /\ running = "hypot" => \A k \in 1..Len(in1) : ~ZeroPair(k)

====
